---- MODULE Spec2Model ----
(***************************************************************************)
(* Model of the UserForm part of the Word automation service               *)
(* (src/src/word/word-service.ts), of the generated VBA helper             *)
(* ShowUserFormModal / CollectFormData, and of the tool handlers that      *)
(* wrap the service calls.                                                 *)
(*                                                                         *)
(* The VBA project of the active document is the state.  The host (Word,   *)
(* the VBE and MSForms) is modelled by what its object model does on the   *)
(* calls the service issues: a component or control name that is already   *)
(* in use is refused when it is assigned, Controls.Add refuses an          *)
(* undefined class id, a Caption can be assigned only to a control that    *)
(* has one, VBComponents.Item refuses an unknown name.                     *)
(*                                                                         *)
(* The ActiveX controls placed in the document (Shapes and InlineShapes)   *)
(* and the format saveAsMacroEnabled hands to SaveAs2 are modelled too.    *)
(***************************************************************************)
EXTENDS Integers, Sequences, FiniteSets, TLC

\* ------------------------------------------------------------------ bounds
\* longest control list handed to createFormWithControls
MaxControls == 3
\* most default-named form components left behind by failed creations
MaxStrays == 1
\* most ActiveX controls placed in the document
MaxShapes == 2
\* the procedures and declarations a code module holds at most
MaxProcedures == 8
\* most temporary modules left behind in the project
MaxTempModules == 2

\* ------------------------------------------------------- program constants
minWidth == 300
minHeight == 200
defaultWidth == 400
defaultHeight == 300
vbext_ct_StdModule == 1
vbext_ct_MSForm == 3
vbext_ct_Document == 100
wdFormatDocument == 0
wdFormatTemplate == 1
wdFormatXMLDocumentMacroEnabled == 13
wdFormatXMLTemplate == 14
wdFormatXMLTemplateMacroEnabled == 15
wdFormatXMLDocument == 16

Max(a, b) == IF a >= b THEN a ELSE b

\* ------------------------------------------------------------ input domains
\* component names a caller may pass; ThisDocument is the document module
\* every Word project holds
FormNames == {"F1", "ThisDocument"}
\* the components of the project the model follows
ComponentNames == FormNames \cup {"UserFormHelper"}
\* the names createFormWithControls is called with
NewFormNames == {"F1"}
Widths == {100, 300, 400}
Heights == {100, 200}

\* controlClassMap of addControlToUserForm: kind -> class id ("" = undefined)
controlClassMap(controlType) ==
  CASE controlType = "commandButton" -> "Forms.CommandButton.1"
    [] controlType = "textBox"       -> "Forms.TextBox.1"
    [] controlType = "label"         -> "Forms.Label.1"
    [] controlType = "checkBox"      -> "Forms.CheckBox.1"
    [] controlType = "optionButton"  -> "Forms.OptionButton.1"
    [] controlType = "comboBox"      -> "Forms.ComboBox.1"
    [] controlType = "listBox"       -> "Forms.ListBox.1"
    [] controlType = "toggleButton"  -> "Forms.ToggleButton.1"
    [] controlType = "spinButton"    -> "Forms.SpinButton.1"
    [] controlType = "scrollBar"     -> "Forms.ScrollBar.1"
    [] controlType = "image"         -> "Forms.Image.1"
    [] controlType = "frame"         -> "Forms.Frame.1"
    [] OTHER                         -> ""

\* the kinds the createFormWithControls tool schema accepts (z.enum)
SchemaKinds ==
  {"textBox", "label", "commandButton", "checkBox", "optionButton",
   "comboBox", "listBox"}

\* MSForms: the kinds whose control has a Caption property
HasCaption(controlType) ==
  controlType \in {"commandButton", "label", "checkBox", "optionButton",
                   "toggleButton", "frame"}

\* MSForms: the kinds whose control has a Value property
HasValue(controlType) ==
  controlType \in {"commandButton", "textBox", "checkBox", "optionButton",
                   "comboBox", "listBox", "toggleButton", "spinButton",
                   "scrollBar"}

\* MSForms: the kinds whose control has a Text property
HasText(controlType) == controlType \in {"textBox", "comboBox", "listBox"}

\* the name MSForms gives a control when it is added (first of its kind)
DefaultControlName(controlType) ==
  CASE controlType = "commandButton" -> "CommandButton1"
    [] controlType = "textBox"       -> "TextBox1"
    [] controlType = "label"         -> "Label1"
    [] controlType = "checkBox"      -> "CheckBox1"
    [] controlType = "optionButton"  -> "OptionButton1"
    [] controlType = "comboBox"      -> "ComboBox1"
    [] controlType = "listBox"       -> "ListBox1"
    [] controlType = "toggleButton"  -> "ToggleButton1"
    [] OTHER                         -> "Control1"

\* the control descriptors callers draw their lists from
Descriptor(type, name, caption, left, top) ==
  [type |-> type, name |-> name, caption |-> caption,
   left |-> left, top |-> top, width |-> 200, height |-> 22]

txtName == Descriptor("textBox", "txtName", "", 120, 28)
chkAgree == Descriptor("checkBox", "chkAgree", "Agree", 20, 60)
lblName == Descriptor("label", "lblName", "Name:", 20, 30)
tglMode == Descriptor("toggleButton", "tglMode", "Mode", 20, 120)

cboCity == Descriptor("comboBox", "cboCity", "", 120, 58)
optYes == Descriptor("optionButton", "optYes", "Yes", 20, 90)
lstItems == Descriptor("listBox", "lstItems", "", 20, 150)
fraBox == Descriptor("frame", "fraBox", "Box", 20, 180)
imgLogo == Descriptor("image", "imgLogo", "", 20, 210)
spnQty == Descriptor("spinButton", "spnQty", "", 20, 240)

\* descriptors with distinct names and kinds of controlClassMap
WellFormed == <<txtName, chkAgree, lblName, tglMode>>

\* what a list may end with: nothing, a second txtName, a control that
\* takes the name of a standard button, a kind outside controlClassMap, a
\* caption for a kind without Caption
Endings ==
  { <<>>,
    <<txtName>>,
    <<Descriptor("commandButton", "btnOK", "Go", 20, 90)>>,
    <<Descriptor("slider", "sldLevel", "", 20, 150)>>,
    <<Descriptor("textBox", "txtNote", "Note", 120, 58)>> }

Min(a, b) == IF a <= b THEN a ELSE b

\* the lists handed to createFormWithControls: up to MaxControls well-formed
\* descriptors, then one of the endings
ControlLists ==
  { SubSeq(WellFormed, 1, n) \o e :
      n \in 0..Min(MaxControls, Len(WellFormed)), e \in Endings }

\* the same without the endings
PlainLists ==
  { SubSeq(WellFormed, 1, n) : n \in 0..Min(MaxControls, Len(WellFormed)) }

\* short lists that between them hold every kind the collectors tell apart
KindLists ==
  { <<txtName, chkAgree>>, <<cboCity, optYes>>, <<lstItems>>, <<tglMode>>,
    <<spnQty>>, <<fraBox>>, <<imgLogo>> }

\* requested sizes <<width, height>>
Sizes == {<<100, 100>>, <<400, 250>>}

\* ------------------------------------------------------------------- state
VARIABLES
  vbComponents,  \* VBProject.VBComponents of the active document, by name
  strays,        \* default-named form components left by failed creations
  helper,        \* UserFormHelper holds Function ShowUserFormModal
  doc,           \* the ActiveX controls of the document: Shapes, InlineShapes
  recordingMacroName,  \* the recordingMacroName property of the service
  tempModules,   \* default-named standard modules in VBComponents
  pending,       \* the createFormWithControls call suspended at an await
  last           \* the operation that ran last, its arguments and outcome

vars == <<vbComponents, strays, helper, doc, recordingMacroName, tempModules, pending, last>>

NoComponent ==
  [type |-> 0, width |-> 0, height |-> 0, controls |-> <<>>,
   code |-> <<>>, cancelled |-> FALSE]

ThisDocument == [NoComponent EXCEPT !.type = vbext_ct_Document]

\* VBComponents.Add(3): a form component, not yet sized, without controls
NewUserForm == [NoComponent EXCEPT !.type = vbext_ct_MSForm]

ControlNames(form) == {form.controls[i].name : i \in DOMAIN form.controls}

\* one call on the host surface, as the service issues it
HostCall(method, target) == <<method, target>>

\* a property of the service object that is not set
undefined == <<>>

\* no createFormWithControls call is suspended
NoPending ==
  [active |-> FALSE, via |-> "service", form |-> "", width |-> 0,
   height |-> 0, controls |-> <<>>, std |-> FALSE, pc |-> 0, calls |-> <<>>]

\* --------------------------------------------------------- service methods
\* Each returns the outcome (ok = it did not throw), the project it leaves
\* and the host calls it issued, in order.

\* createUserForm that takes over a name already in use
createUserForm_Overwrite(comps, nStrays, formName, width, height) ==
  [ok |-> TRUE,
   comps |-> [comps EXCEPT ![formName] =
                [NewUserForm EXCEPT !.width = Max(width, minWidth),
                                    !.height = Max(height, minHeight)]],
   strays |-> nStrays,
   calls |-> <<HostCall("VBComponents.Add", formName)>>]

\* createUserForm(formName, caption, width, height).  The caption is not
\* part of the state: it is assigned inside its own try block and nothing
\* reads it back.  The host accepts the size assignments.
createUserForm(comps, nStrays, formName, width, height) ==
  LET added == <<HostCall("VBComponents.Add", formName)>>
  IN IF comps[formName].type # 0
     THEN \* vbComponent.Name = formName is refused: the name is in use; the
          \* component just added keeps its default name and stays
          [ok |-> FALSE, comps |-> comps, strays |-> nStrays + 1,
           calls |-> added]
     ELSE [ok |-> TRUE,
           comps |-> [comps EXCEPT ![formName] =
                        [NewUserForm EXCEPT !.width = Max(width, minWidth),
                                            !.height = Max(height, minHeight)]],
           strays |-> nStrays,
           calls |-> added]

\* the control Controls.Add has just put on the form
NewControl(controlType, name) ==
  [name |-> name, type |-> controlType, caption |-> "",
   left |-> 0, top |-> 0, width |-> 0, height |-> 0]

\* addControlToUserForm(formName, controlType, controlName, caption,
\*                      left, top, width, height)
addControlToUserForm(comps, formName, controlType, controlName, caption, left, top, width, height) ==
  LET form == comps[formName]
      failed(cs, calls) == [ok |-> FALSE, comps |-> cs, calls |-> calls]
      added == <<HostCall("Controls.Add", controlName)>>
      stray == NewControl(controlType, DefaultControlName(controlType))
      withStray == [comps EXCEPT ![formName].controls = Append(@, stray)]
      control == [name |-> controlName, type |-> controlType,
                  caption |-> caption, left |-> left, top |-> top,
                  width |-> width, height |-> height]
  IN CASE form.type = 0 -> failed(comps, <<>>)            \* Item throws
       [] form.type # 0 /\ form.type # vbext_ct_MSForm ->
            failed(comps, <<>>)                           \* not a UserForm
       [] form.type = vbext_ct_MSForm /\ controlClassMap(controlType) = "" ->
            failed(comps, added)        \* Controls.Add(undefined) throws
       [] form.type = vbext_ct_MSForm /\ controlClassMap(controlType) # ""
            /\ controlName \in ControlNames(form) ->
            failed(withStray, added)    \* control.Name is refused
       [] form.type = vbext_ct_MSForm /\ controlClassMap(controlType) # ""
            /\ controlName \notin ControlNames(form)
            /\ caption # "" /\ ~HasCaption(controlType) ->
            \* control.Caption is refused; the control is named already
            failed([comps EXCEPT ![formName].controls =
                      Append(@, NewControl(controlType, controlName))], added)
       [] OTHER ->
            [ok |-> TRUE,
             comps |-> [comps EXCEPT ![formName].controls = Append(@, control)],
             calls |-> added]

\* the procedures and declarations of buttonCode, in order
buttonCode ==
  <<"btnOK_Click", "btnCancel_Click", "UserForm_QueryClose", "WasCancelled">>

Includes(code, procName) == \E i \in DOMAIN code : code[i] = procName

\* addStandardFormEventHandlers(formName)
addStandardFormEventHandlers(comps, formName) ==
  LET form == comps[formName]
  IN CASE form.type # vbext_ct_MSForm ->
            [ok |-> FALSE, comps |-> comps, calls |-> <<>>]
       [] form.type = vbext_ct_MSForm /\ Includes(form.code, "btnOK_Click") ->
            [ok |-> TRUE, comps |-> comps, calls |-> <<>>]
       [] OTHER ->
            [ok |-> TRUE,
             comps |-> [comps EXCEPT ![formName].code = @ \o buttonCode],
             calls |-> <<HostCall("CodeModule.AddFromString", formName)>>]

\* the procedures of submitCode, in order
submitCode == <<"btnSubmit_Click", "btnCancel_Click">>

\* addUserFormSubmitLogic(formName, targetMacro).  The target macro is
\* named only inside the body of btnSubmit_Click.
addUserFormSubmitLogic(comps, formName) ==
  LET form == comps[formName]
  IN IF form.type # vbext_ct_MSForm
     THEN [ok |-> FALSE, comps |-> comps, calls |-> <<>>]
     ELSE [ok |-> TRUE,
           comps |-> [comps EXCEPT ![formName].code = @ \o submitCode],
           calls |-> <<HostCall("CodeModule.AddFromString", formName)>>]

\* the loop of createFormWithControls over the controls, stopping at the
\* first addControlToUserForm that throws
RECURSIVE addEachControl(_, _, _)
addEachControl(comps, formName, controls) ==
  IF controls = <<>>
  THEN [ok |-> TRUE, comps |-> comps, calls |-> <<>>]
  ELSE LET ctrl == Head(controls)
           r == addControlToUserForm(comps, formName, ctrl.type, ctrl.name,
                                     ctrl.caption, ctrl.left, ctrl.top,
                                     ctrl.width, ctrl.height)
       IN IF ~r.ok THEN r
          ELSE LET rest == addEachControl(r.comps, formName, Tail(controls))
               IN [rest EXCEPT !.calls = r.calls \o @]

\* sequencing that issues the calls of the second step first
andThen_SecondFirst(r, s) ==
  IF ~r.ok THEN r ELSE [s EXCEPT !.calls = @ \o r.calls]

\* sequencing inside a try block: step s runs on the project r leaves,
\* unless r has thrown
andThen(r, s) == IF ~r.ok THEN r ELSE [s EXCEPT !.calls = r.calls \o @]

\* standard buttons without the Cancel button
addStandardButtonsTo_OKOnly(comps, formName, width, height) ==
  LET ok1 == addControlToUserForm(comps, formName, "commandButton", "btnOK",
                                  "OK", width - 20 - 160, height - 60, 70, 30)
  IN andThen(ok1, addStandardFormEventHandlers(ok1.comps, formName))

\* the standard buttons and handlers of createFormWithControls
addStandardButtonsTo(comps, formName, width, height) ==
  LET buttonTop == height - 60
      buttonRight == width - 20
      ok1 == addControlToUserForm(comps, formName, "commandButton", "btnOK",
                                  "OK", buttonRight - 160, buttonTop, 70, 30)
      ok2 == andThen(ok1,
               addControlToUserForm(ok1.comps, formName, "commandButton",
                                    "btnCancel", "Cancel", buttonRight - 80,
                                    buttonTop, 70, 30))
  IN andThen(ok2, addStandardFormEventHandlers(ok2.comps, formName))

\* createFormWithControls that removes the form again when a step throws
createFormWithControls_RollBack(comps, nStrays, formName, width, height, controls, addStandardButtons) ==
  LET made == createUserForm(comps, nStrays, formName, width, height)
      madeNoStrays == [ok |-> made.ok, comps |-> made.comps,
                       calls |-> made.calls]
      filled == andThen(madeNoStrays,
                        addEachControl(made.comps, formName, controls))
      done == IF addStandardButtons
              THEN andThen(filled,
                     addStandardButtonsTo(filled.comps, formName, width,
                                          height))
              ELSE filled
  IN [ok |-> done.ok, comps |-> IF done.ok THEN done.comps ELSE comps,
      strays |-> made.strays, calls |-> done.calls]

\* createFormWithControls(formName, caption, width, height, controls,
\*                        addStandardButtons)
createFormWithControls(comps, nStrays, formName, width, height, controls, addStandardButtons) ==
  LET made == createUserForm(comps, nStrays, formName, width, height)
      madeNoStrays == [ok |-> made.ok, comps |-> made.comps,
                       calls |-> made.calls]
      filled == andThen(madeNoStrays,
                        addEachControl(made.comps, formName, controls))
      done == IF addStandardButtons
              THEN andThen(filled,
                     addStandardButtonsTo(filled.comps, formName, width,
                                          height))
              ELSE filled
  IN [ok |-> done.ok, comps |-> done.comps, strays |-> made.strays,
      calls |-> done.calls]

\* deleteUserForm(formName)
deleteUserForm(comps, formName) ==
  IF comps[formName].type # vbext_ct_MSForm
  THEN [ok |-> FALSE, comps |-> comps, calls |-> <<>>]
  ELSE [ok |-> TRUE, comps |-> [comps EXCEPT ![formName] = NoComponent],
        calls |-> <<HostCall("VBComponents.Remove", formName)>>]

\* the names VBComponents.Add(3) gave the forms that could not be renamed
StrayNames(nStrays) == {"UserForm" \o ToString(i) : i \in 1..nStrays}

\* listUserForms that does not look at the component type
listUserForms_AllComponents(comps, nStrays) ==
  {n \in DOMAIN comps : comps[n].type # 0} \cup StrayNames(nStrays)

\* listUserForms(): the names of the components of Type 3
listUserForms(comps, nStrays) ==
  {n \in DOMAIN comps : comps[n].type = vbext_ct_MSForm}
    \cup StrayNames(nStrays)

\* ------------------------------------------------------- the displayed form
\* What the user does while the form is shown modally: types `typed` into
\* the text controls, sets the check controls to `checked`, and closes the
\* form by `closure`: "ok" (btnOK), "cancel" (btnCancel) or "close" (the
\* window-close affordance).
Closures == {"ok", "cancel", "close"}
Typed == {"", "Ada"}

HasButton(form, name) ==
  \E i \in DOMAIN form.controls :
     form.controls[i].name = name /\ form.controls[i].type = "commandButton"

\* a button closes the form only through its Click handler (Me.Hide)
CanClose(form, closure) ==
  CASE closure = "ok" ->
         HasButton(form, "btnOK") /\ Includes(form.code, "btnOK_Click")
    [] closure = "cancel" ->
         HasButton(form, "btnCancel") /\ Includes(form.code, "btnCancel_Click")
    [] OTHER -> TRUE

\* the flag when closing the window leaves it as it was
cancelledAfter_CloseKeeps(form, closure) ==
  CASE closure = "ok" -> FALSE
    [] closure = "cancel" -> TRUE
    [] OTHER -> form.cancelled

\* the module-level flag `cancelled` of buttonCode after the closure
cancelledAfter(form, closure) ==
  CASE closure = "ok" -> FALSE                         \* btnOK_Click
    [] closure = "cancel" -> TRUE                      \* btnCancel_Click
    [] OTHER -> IF Includes(form.code, "UserForm_QueryClose")
                THEN TRUE                              \* CloseMode = 0
                ELSE form.cancelled

\* values a control property can hold
StrVal(s) == [kind |-> "string", text |-> s, flag |-> FALSE]
BoolVal(b) == [kind |-> "boolean", text |-> "", flag |-> b]
NullVal == [kind |-> "null", text |-> "", flag |-> FALSE]
NumVal(n) == [kind |-> "number", text |-> ToString(n), flag |-> FALSE]

\* control.Value, control.Text, control.Caption of a control of the form
\* the user has closed
ValueOf(control, typed, checked) ==
  CASE control.type \in {"textBox", "comboBox"} -> StrVal(typed)
    [] control.type \in {"checkBox", "optionButton", "toggleButton"} ->
         BoolVal(checked)
    [] control.type = "listBox" -> NullVal            \* nothing selected
    [] control.type \in {"spinButton", "scrollBar"} -> NumVal(0)
    [] OTHER -> BoolVal(FALSE)
TextOf(control, typed) == StrVal(typed)
CaptionOf(control) == StrVal(control.caption)

\* the body of the collection loop of showUserForm for one control:
\* the first defined of Value, Text, Caption
collectOne(formData, control, typed, checked) ==
  CASE HasValue(control.type) ->
         (control.name :> ValueOf(control, typed, checked)) @@ formData
    [] ~HasValue(control.type) /\ HasText(control.type) ->
         (control.name :> TextOf(control, typed)) @@ formData
    [] ~HasValue(control.type) /\ ~HasText(control.type)
         /\ HasCaption(control.type) ->
         (control.name :> CaptionOf(control)) @@ formData
    [] OTHER -> formData

\* the collection loop of showUserForm from control i on; the control at
\* index `faulty` raises when it is read, which ends the loop (the try
\* block encloses the whole loop)
RECURSIVE collectFrom(_, _, _, _, _, _)
collectFrom(formData, controls, i, typed, checked, faulty) ==
  IF i > Len(controls) \/ i = faulty
  THEN formData
  ELSE collectFrom(collectOne(formData, controls[i], typed, checked),
                   controls, i + 1, typed, checked, faulty)

EmptyData == [n \in {} |-> StrVal("")]

\* showUserForm(formName)
showUserForm(comps, formName, closure, typed, checked, faulty) ==
  LET form == comps[formName]
  IN IF form.type # vbext_ct_MSForm
     THEN [ok |-> FALSE, comps |-> comps, formData |-> EmptyData,
           calls |-> <<>>]
     ELSE [ok |-> TRUE,
           comps |-> [comps EXCEPT ![formName].cancelled =
                                      cancelledAfter(form, closure)],
           formData |-> collectFrom(EmptyData, form.controls, 1, typed,
                                    checked, faulty),
           calls |-> <<HostCall("Show", formName)>>]

\* ------------------------------------------------- the generated VBA helper
\* The helper's source is a template literal of createShowUserFormModal-
\* Function, in which \" stands for a plain double quote.  The VBA text that
\* reaches the module therefore reads, for a text box,
\*     controlData = """ & control.Name & "":"" & control.Text & """
\* which VBA reads as ONE string literal (a doubled quote inside a literal
\* is a quote character): the names and values are not evaluated.

\* TypeName(control)
TypeName(control) ==
  CASE control.type = "textBox"       -> "TextBox"
    [] control.type = "comboBox"      -> "ComboBox"
    [] control.type = "checkBox"      -> "CheckBox"
    [] control.type = "optionButton"  -> "OptionButton"
    [] control.type = "listBox"       -> "ListBox"
    [] control.type = "label"         -> "Label"
    [] control.type = "commandButton" -> "CommandButton"
    [] control.type = "toggleButton"  -> "ToggleButton"
    [] control.type = "spinButton"    -> "SpinButton"
    [] control.type = "scrollBar"     -> "ScrollBar"
    [] control.type = "image"         -> "Image"
    [] control.type = "frame"         -> "Frame"
    [] OTHER                          -> "Control"

\* IIf(control.Value, "true", "false")
IIf(cond, a, b) == IF cond THEN a ELSE b

\* the Select Case of CollectFormData: the controlData of one control
controlData(control, checked) ==
  CASE TypeName(control) \in {"TextBox", "ComboBox"} ->
         "\" & control.Name & \":\" & control.Text & \""
    [] TypeName(control) \in {"CheckBox", "OptionButton"} ->
         "\" & control.Name & \":" \o IIf(checked, "true", "false")
    [] TypeName(control) = "ListBox" ->
         "\" & control.Name & \":\""                  \* ListIndex = -1
    [] TypeName(control) \in {"Label", "CommandButton"} -> ""
    [] OTHER -> "\" & control.Name & \":\" & control.Value & \""

\* the cases of the Select Case that evaluate a property of the control
\* under On Error GoTo ErrorHandler
ReadsControl(control) ==
  TypeName(control) \in {"CheckBox", "OptionButton", "ListBox"}

\* the For loop of CollectFormData from control i on, result so far in
\* `result`; a read that raises jumps to ErrorHandler, which returns "{}"
RECURSIVE collectLoop(_, _, _, _, _)
collectLoop(result, controls, i, checked, faulty) ==
  IF i > Len(controls)
  THEN result \o "}"
  ELSE IF i = faulty /\ ReadsControl(controls[i])
       THEN "{}"
       ELSE LET data == controlData(controls[i], checked)
                sep == IF Len(result) > 1 THEN "," ELSE ""
            IN collectLoop(IF data # "" THEN result \o sep \o data
                                        ELSE result,
                           controls, i + 1, checked, faulty)

\* CollectFormData(userForm)
CollectFormData(form, checked, faulty) ==
  collectLoop("{", form.controls, 1, checked, faulty)

\* ShowUserFormModal(formName): the string it returns and the project it
\* leaves; shown = the form was displayed
ShowUserFormModal(comps, formName, closure, checked, faulty) ==
  LET form == comps[formName]
  IN IF form.type # vbext_ct_MSForm
     THEN \* ErrorHandler, or the "is not a UserForm" exit
          [result |-> "", comps |-> comps, shown |-> FALSE]
     ELSE [result |-> CollectFormData(form, checked, faulty),
           comps |-> [comps EXCEPT ![formName].cancelled =
                                      cancelledAfter(form, closure)],
           shown |-> TRUE]

\* --------------------------------------------------- modules of the project
\* the procedures of the vbaCode createShowUserFormModalFunction adds
vbaCode == <<"ShowUserFormModal", "CollectFormData", "AddOKCancelButtons">>

\* createShowUserFormModalFunction that takes a UserFormHelper module it
\* finds for one that holds the function
createShowUserFormModalFunction_ModuleOnly(comps) ==
  IF comps["UserFormHelper"].type # 0
  THEN [ok |-> TRUE, comps |-> comps, calls |-> <<>>]
  ELSE [ok |-> TRUE,
        comps |-> [comps EXCEPT !["UserFormHelper"] =
                     [NoComponent EXCEPT !.type = vbext_ct_StdModule,
                                         !.code = vbaCode]],
        calls |-> <<HostCall("VBComponents.Add", "UserFormHelper"),
                    HostCall("CodeModule.AddFromString", "UserFormHelper")>>]

\* createShowUserFormModalFunction(): the module is fetched, or added and
\* named when Item throws; the code is added unless the module's text
\* includes "Function ShowUserFormModal"
createShowUserFormModalFunction(comps) ==
  LET found == comps["UserFormHelper"].type # 0
      got == IF found
             THEN comps
             ELSE [comps EXCEPT !["UserFormHelper"] =
                     [NoComponent EXCEPT !.type = vbext_ct_StdModule]]
      added == IF found THEN <<>>
               ELSE <<HostCall("VBComponents.Add", "UserFormHelper")>>
  IN IF Includes(got["UserFormHelper"].code, "ShowUserFormModal")
     THEN [ok |-> TRUE, comps |-> got, calls |-> added]
     ELSE [ok |-> TRUE,
           comps |-> [got EXCEPT !["UserFormHelper"].code = @ \o vbaCode],
           calls |-> added \o <<HostCall("CodeModule.AddFromString",
                                         "UserFormHelper")>>]

\* typeMap of listVbaModules
typeMap(type) ==
  CASE type = vbext_ct_StdModule -> "standard"
    [] type = 2                  -> "class"
    [] type = vbext_ct_MSForm    -> "form"
    [] type = vbext_ct_Document  -> "document"
    [] OTHER                     -> "unknown"

\* listVbaModules(): name and type of every component
listVbaModules(comps, nStrays) ==
  {[name |-> n, type |-> typeMap(comps[n].type)] :
      n \in {m \in DOMAIN comps : comps[m].type # 0}}
    \cup {[name |-> n, type |-> "form"] : n \in StrayNames(nStrays)}

\* getVbaModuleCode(moduleName): Item throws on an unknown name
getVbaModuleCode(comps, moduleName) ==
  IF moduleName \notin DOMAIN comps \/ comps[moduleName].type = 0
  THEN [ok |-> FALSE, code |-> <<>>]
  ELSE [ok |-> TRUE, code |-> comps[moduleName].code]

\* ------------------------------------------- ActiveX controls of the document
NoControls == [shapes |-> <<>>, inlineShapes |-> <<>>]

\* ActiveXControlType of the tool schema
ActiveXControlType ==
  {"commandButton", "textBox", "label", "checkBox", "optionButton",
   "comboBox", "listBox", "toggleButton", "spinButton", "scrollBar", "image",
   "frame"}

\* the kinds and names callers pass; "my button" is a name a shape may
\* carry and a control object may not (it is not an identifier)
ControlKinds == {"commandButton", "textBox", "slider"}
ControlNamePool == {"btnGo", "my button"}
NotIdentifiers == {"my button"}

\* the names of the control objects (OLEFormat.Object.Name) in the document
ObjectNames(d) ==
  {d.shapes[i].objName : i \in DOMAIN d.shapes}
    \cup {d.inlineShapes[i].objName : i \in DOMAIN d.inlineShapes}

\* the name the host gives the object of a control it has just added
DefaultObjectName(d, kind) ==
  LET n == Cardinality({i \in DOMAIN d.shapes : d.shapes[i].kind = kind})
             + Cardinality({i \in DOMAIN d.inlineShapes :
                              d.inlineShapes[i].kind = kind})
  IN TypeName([type |-> kind]) \o ToString(n + 1)

\* addActiveXControl(controlType, name, caption, left, top, width, height,
\* anchorToRange).  The object refuses a name that is in use or is not an
\* identifier, which the inner try swallows.  An InlineShape has no Name
\* member: namePut tells whether the host lets `shape.Name = name` pass on
\* it.  The caption and the geometry are not read back by any operation.
addActiveXControl(d, controlType, name, anchorToRange, namePut) ==
  LET classId == controlClassMap(controlType)
      default == DefaultObjectName(d, controlType)
      refused == name \in ObjectNames(d) \/ name \in NotIdentifiers
      objName == IF refused THEN default ELSE name
      inline(n) == [d EXCEPT !.inlineShapes =
                      Append(@, [objName |-> n, kind |-> controlType])]
  IN CASE classId = "" -> [ok |-> FALSE, doc |-> d, calls |-> <<>>]
       [] classId # "" /\ anchorToRange /\ ~namePut ->
            [ok |-> FALSE, doc |-> inline(default),
             calls |-> <<HostCall("InlineShapes.AddOLEControl", name)>>]
       [] classId # "" /\ anchorToRange /\ namePut ->
            [ok |-> TRUE, doc |-> inline(objName),
             calls |-> <<HostCall("InlineShapes.AddOLEControl", name)>>]
       [] OTHER ->
            [ok |-> TRUE,
             doc |-> [d EXCEPT !.shapes =
                        Append(@, [name |-> name, objName |-> objName,
                                   kind |-> controlType])],
             calls |-> <<HostCall("Shapes.AddOLEControl", name)>>]

\* listActiveXControls(): the floating controls by shape name, then the
\* anchored ones by the name of their object
listActiveXControls(d) ==
  [i \in 1..Len(d.shapes) |->
     [name |-> d.shapes[i].name, type |-> controlClassMap(d.shapes[i].kind)]]
    \o [i \in 1..Len(d.inlineShapes) |->
          [name |-> IF d.inlineShapes[i].objName # ""
                    THEN d.inlineShapes[i].objName
                    ELSE "InlineControl" \o ToString(i),
           type |-> controlClassMap(d.inlineShapes[i].kind)]]

\* ------------------------------------------------------- saving the document
\* MacroFileFormat of the tool schema
MacroFileFormat == {"docm", "dotm", "docx", "dotx", "doc", "dot"}

\* formatMap of saveAsMacroEnabled; -1 stands for undefined
formatMap(format) ==
  CASE format = "docm" -> wdFormatXMLDocumentMacroEnabled
    [] format = "dotm" -> wdFormatXMLTemplateMacroEnabled
    [] format = "docx" -> wdFormatXMLDocument
    [] format = "dotx" -> wdFormatXMLTemplate
    [] format = "doc"  -> wdFormatDocument
    [] format = "dot"  -> wdFormatTemplate
    [] OTHER           -> -1

\* JavaScript a || b on a number or undefined: b when a is undefined or 0
Or(a, b) == IF a = -1 \/ a = 0 THEN b ELSE a

\* saveAsMacroEnabled(filePath, format, createBackup): the format SaveAs2
\* is called with; SaveAs2 throws when the path cannot be written
saveAsMacroEnabled(format, createBackup, writable) ==
  LET fileFormat == Or(formatMap(format), wdFormatXMLDocumentMacroEnabled)
      backup == IF createBackup THEN <<HostCall("SaveAs2", "backup")>>
                ELSE <<>>
  IN IF ~writable
     THEN [ok |-> FALSE, fileFormat |-> -1,
           calls |-> <<HostCall("SaveAs2", IF createBackup THEN "backup"
                                                          ELSE format)>>]
     ELSE [ok |-> TRUE, fileFormat |-> fileFormat,
           calls |-> backup \o <<HostCall("SaveAs2", format)>>]

\* ------------------------------------------------- recording, testing, running
\* `a || b` on a property holding a macro name: a unless it is not set or ""
OrName(stored, default) ==
  IF stored = undefined \/ stored = <<"">> THEN default ELSE stored[1]

\* startRecordingMacro(macroName, description): the property it leaves
startRecordingMacro(macroName) == <<macroName>>

\* stopRecordingMacro(): the name it returns and the property it leaves
stopRecordingMacro(stored) ==
  [result |-> OrName(stored, "RecordedMacro"), stored |-> undefined]

\* the JavaScript value undefined: an argument not given, no return value
Undefined == [kind |-> "undefined", text |-> "", flag |-> FALSE]

\* ToBoolean of a value, as in `testData ? ... : ...`
Truthy(v) ==
  CASE v.kind = "string"  -> v.text # ""
    [] v.kind = "number"  -> v.text # "0"
    [] v.kind = "boolean" -> v.flag
    [] OTHER              -> FALSE

\* JSON.stringify the way String(value) would write the value
JSONstringify_Unquoted(v) ==
  CASE v.kind = "boolean"   -> IF v.flag THEN "true" ELSE "false"
    [] v.kind = "null"      -> "null"
    [] v.kind = "undefined" -> "undefined"
    [] OTHER                -> v.text

\* JSON.stringify(value); for undefined it returns undefined, no text
JSONstringify(v) ==
  CASE v.kind = "string"    -> "\"" \o v.text \o "\""
    [] v.kind = "number"    -> v.text
    [] v.kind = "boolean"   -> IF v.flag THEN "true" ELSE "false"
    [] v.kind = "null"      -> "null"
    [] OTHER                -> "undefined"

\* the macros of the project under test: GetOne and GetText are functions
\* without parameters, DoNothing is a Sub, Echo returns its one argument;
\* Application.Run throws for an unknown macro and for a wrong argument count
TestMacros == {"GetOne", "GetText", "DoNothing", "Echo", "NoSuchMacro"}

Run(macroName, parameters) ==
  CASE macroName = "GetOne" /\ parameters = <<>> ->
         [ok |-> TRUE, value |-> NumVal(1)]
    [] macroName = "GetText" /\ parameters = <<>> ->
         [ok |-> TRUE, value |-> StrVal("1")]
    [] macroName = "DoNothing" /\ parameters = <<>> ->
         [ok |-> TRUE, value |-> Undefined]
    [] macroName = "Echo" /\ Len(parameters) = 1 ->
         [ok |-> TRUE, value |-> parameters[1]]
    [] OTHER -> [ok |-> FALSE, value |-> Undefined]

\* testVbaMacro(macroName, testData, expectedResult): the object it returns;
\* error is "" for null
testVbaMacro(macroName, testData, expectedResult) ==
  LET parameters == IF Truthy(testData) THEN <<testData>> ELSE <<>>
      ran == Run(macroName, parameters)
      calls == <<HostCall("Application.Run", macroName)>>
  IN IF ran.ok
     THEN [success |-> IF expectedResult # Undefined
                       THEN JSONstringify(ran.value)
                              = JSONstringify(expectedResult)
                       ELSE TRUE,
           result |-> ran.value, error |-> "", parameters |-> parameters,
           calls |-> calls]
     ELSE [success |-> FALSE, result |-> Undefined,
           error |-> "Failed to run macro '" \o macroName \o "'.",
           parameters |-> parameters, calls |-> calls]

\* the code handed to executeVbaImmediate: statements that run, a statement
\* that raises an error, text that does not compile
VbaSnippets == {"x = 1", "Err.Raise 5", "x = ("}
Runs(immediateCode) == immediateCode = "x = 1"

\* where the host makes a call of executeVbaImmediate throw, beyond what
\* the code itself does in Application.Run
HostFaults == {"none", "VBComponents.Add", "CodeModule.AddFromString"}

\* executeVbaImmediate(vbaCode): the temporary function has no statement
\* assigning its return value, Application.Run returns Empty and the method
\* returns ""; nModules is the count of default-named standard modules
executeVbaImmediate(nModules, immediateCode, fault) ==
  LET add == <<HostCall("VBComponents.Add", "TempModule")>>
      fill == add \o <<HostCall("CodeModule.AddFromString", immediateCode)>>
      run == fill \o <<HostCall("Application.Run", "TempImmediate")>>
  IN CASE fault = "VBComponents.Add" ->
            [ok |-> FALSE, modules |-> nModules, result |-> "", calls |-> add]
       [] fault = "CodeModule.AddFromString" ->
            [ok |-> FALSE, modules |-> nModules + 1, result |-> "",
             calls |-> fill]
       [] fault = "none" /\ ~Runs(immediateCode) ->
            [ok |-> FALSE, modules |-> nModules + 1, result |-> "",
             calls |-> run]
       [] OTHER ->
            [ok |-> TRUE, modules |-> nModules, result |-> "",
             calls |-> run \o <<HostCall("VBComponents.Remove",
                                         "TempModule")>>]

\* ------------------------------------------------------------ tool handlers
\* A tool handler awaits the service call inside try and turns the outcome
\* into a CallToolResult; the message of the Error the service throws is
\* appended to the handler's own prefix.
CallToolResult_NoFlag(svcOk, okText, failPrefix, message) ==
  [isError |-> FALSE, text |-> IF svcOk THEN okText ELSE failPrefix \o message]

CallToolResult(svcOk, okText, failPrefix, message) ==
  IF svcOk
  THEN [isError |-> FALSE, text |-> okText]
  ELSE [isError |-> TRUE, text |-> failPrefix \o message]

\* createFormWithControlsSchema: what the schema of the tool lets through
createFormWithControlsSchema(width, height, controls) ==
  /\ width >= minWidth
  /\ height >= minHeight
  /\ \A i \in DOMAIN controls : controls[i].type \in SchemaKinds

\* --------------------------------------------------------------- operations
\* what testVbaMacro returned, when it was not called
NoTest ==
  [success |-> FALSE, result |-> Undefined, error |-> "", parameters |-> <<>>]

NoLast ==
  [op |-> "none", via |-> "service", form |-> "", width |-> 0, height |-> 0,
   controls |-> <<>>, std |-> FALSE, macro |-> "", closure |-> "",
   typed |-> "", checked |-> FALSE, faulty |-> 0,
   status |-> "ok", calls |-> <<>>, formData |-> EmptyData, result |-> "",
   names |-> {}, name |-> "", kind |-> "", anchor |-> FALSE,
   listed |-> <<>>, modules |-> {}, code |-> <<>>, format |-> "",
   fileFormat |-> -1, isError |-> FALSE, text |-> "", message |-> "",
   testData |-> Undefined, expectedResult |-> Undefined,
   test |-> NoTest]

Vias == {"service", "tool"}

\* the outcome of a call as its caller sees it: a tool call yields a
\* CallToolResult, a direct call returns or throws
Outcome(rec, via, svcOk, okText, failPrefix, message) ==
  LET r == CallToolResult(svcOk, okText, failPrefix, message)
  IN [rec EXCEPT !.via = via,
                 !.status = IF svcOk THEN "ok" ELSE "error",
                 !.message = IF svcOk THEN "" ELSE message,
                 !.isError = IF via = "tool" THEN r.isError ELSE FALSE,
                 !.text = IF via = "tool" THEN r.text ELSE ""]

\* createUserFormTool / a direct call of createUserForm
CreateUserForm ==
  \E via \in Vias, formName \in FormNames, width \in Widths,
     height \in Heights, given \in BOOLEAN :
    LET w == IF given THEN width ELSE defaultWidth
        h == IF given THEN height ELSE defaultHeight
        r == createUserForm(vbComponents, strays, formName, w, h)
    IN /\ r.strays <= MaxStrays
       /\ vbComponents' = r.comps
       /\ strays' = r.strays
       /\ last' = Outcome([NoLast EXCEPT !.op = "createUserForm",
                                         !.form = formName, !.width = w,
                                         !.height = h, !.calls = r.calls],
                          via, r.ok,
                          "Successfully created UserForm '" \o formName \o "'",
                          "Failed to create UserForm: ",
                          "Failed to create UserForm '" \o formName \o "'.")
       /\ UNCHANGED <<helper, doc, recordingMacroName, tempModules,
                      pending>>

\* a direct call of createFormWithControls, arguments from the given sets
CallCreateFormWithControls(sizes, lists) ==
  \E formName \in NewFormNames, size \in sizes, controls \in lists,
     addStandardButtons \in BOOLEAN :
    LET width == size[1]
        height == size[2]
        r == createFormWithControls(vbComponents, strays, formName, width,
                                    height, controls, addStandardButtons)
    IN /\ r.strays <= MaxStrays
       /\ vbComponents' = r.comps
       /\ strays' = r.strays
       /\ last' = Outcome([NoLast EXCEPT !.op = "createFormWithControls",
                                         !.form = formName, !.width = width,
                                         !.height = height,
                                         !.controls = controls,
                                         !.std = addStandardButtons,
                                         !.calls = r.calls],
                          "service", r.ok, "", "",
                          "Failed to create form '" \o formName \o "'.")
       /\ UNCHANGED <<helper, doc, recordingMacroName, tempModules,
                      pending>>

\* createFormWithControlsTool behind its schema, arguments from the given
\* sets
CallCreateFormWithControlsTool(sizes, lists) ==
  \E formName \in NewFormNames, size \in sizes, controls \in lists,
     addStandardButtons \in BOOLEAN :
    LET width == size[1]
        height == size[2]
        args == [NoLast EXCEPT !.op = "createFormWithControls",
                              !.form = formName, !.width = width,
                              !.height = height, !.controls = controls,
                              !.std = addStandardButtons]
        r == createFormWithControls(vbComponents, strays, formName, width,
                                    height, controls, addStandardButtons)
    IN IF ~createFormWithControlsSchema(width, height, controls)
       THEN \* the arguments are refused; the handler does not run
            /\ last' = [args EXCEPT !.via = "tool", !.status = "rejected",
                                    !.isError = TRUE,
                                    !.text = "Invalid arguments"]
            /\ UNCHANGED <<vbComponents, strays, helper, doc, recordingMacroName, tempModules,
                           pending>>
       ELSE /\ r.strays <= MaxStrays
            /\ vbComponents' = r.comps
            /\ strays' = r.strays
            /\ last' = Outcome([args EXCEPT !.calls = r.calls], "tool", r.ok,
                               "Successfully created UserForm '" \o formName
                                  \o "'",
                               "Failed to create form: ",
                               "Failed to create form '" \o formName \o "'.")
            /\ UNCHANGED <<helper, doc, recordingMacroName, tempModules,
                           pending>>

\* deleteUserFormTool / a direct call of deleteUserForm
DeleteUserForm ==
  \E via \in Vias, formName \in FormNames :
    LET r == deleteUserForm(vbComponents, formName)
    IN /\ vbComponents' = r.comps
       /\ last' = Outcome([NoLast EXCEPT !.op = "deleteUserForm",
                                         !.form = formName,
                                         !.calls = r.calls],
                          via, r.ok,
                          "Successfully deleted UserForm '" \o formName \o "'",
                          "Failed to delete UserForm: ",
                          "Failed to delete UserForm '" \o formName \o "'.")
       /\ UNCHANGED <<strays, helper, doc, recordingMacroName, tempModules,
                      pending>>

\* listUserFormsTool / a direct call of listUserForms
ListUserForms ==
  \E via \in Vias :
    /\ last' = Outcome([NoLast EXCEPT !.op = "listUserForms",
                                      !.names = listUserForms(vbComponents,
                                                              strays)],
                       via, TRUE, "UserForms in document: ",
                       "Failed to list UserForms: ",
                       "Failed to list UserForms.")
    /\ UNCHANGED <<vbComponents, strays, helper, doc, recordingMacroName, tempModules,
                   pending>>

\* showUserFormTool / a direct call of showUserForm; the user closes the
\* form in one of the ways the form offers
ShowUserForm ==
  \E via \in Vias, formName \in FormNames, closure \in Closures,
     typed \in Typed, checked \in BOOLEAN :
   \E faulty \in 0..Len(vbComponents[formName].controls) :
    LET form == vbComponents[formName]
        r == showUserForm(vbComponents, formName, closure, typed, checked,
                          faulty)
    IN /\ IF form.type = vbext_ct_MSForm
          THEN CanClose(form, closure)
          ELSE closure = "close" /\ typed = "" /\ ~checked
       /\ vbComponents' = r.comps
       /\ last' = Outcome([NoLast EXCEPT !.op = "showUserForm",
                                         !.form = formName,
                                         !.controls = form.controls,
                                         !.closure = closure,
                                         !.typed = typed,
                                         !.checked = checked,
                                         !.faulty = faulty,
                                         !.formData = r.formData,
                                         !.calls = r.calls],
                          via, r.ok,
                          "UserForm '" \o formName \o "' displayed.",
                          "Failed to show UserForm '" \o formName \o "': ",
                          "Failed to show UserForm '" \o formName \o "'.")
       /\ UNCHANGED <<strays, helper, doc, recordingMacroName, tempModules,
                      pending>>

\* createShowUserFormModalFunction: the helper module holds the function
\* from now on
CreateShowUserFormModalFunction ==
  LET r == createShowUserFormModalFunction(vbComponents)
  IN /\ vbComponents' = r.comps
     /\ helper' = Includes(r.comps["UserFormHelper"].code, "ShowUserFormModal")
     /\ last' = [NoLast EXCEPT !.op = "createShowUserFormModalFunction",
                               !.calls = r.calls]
     /\ UNCHANGED <<strays, doc, recordingMacroName, tempModules,
                    pending>>

\* listVbaModulesTool / a direct call of listVbaModules
ListVbaModules ==
  \E via \in Vias :
    /\ last' = Outcome([NoLast EXCEPT !.op = "listVbaModules",
                                      !.modules = listVbaModules(vbComponents,
                                                                 strays)],
                       via, TRUE, "VBA Modules:", "Failed to list VBA modules: ",
                       "Failed to list VBA modules.")
    /\ UNCHANGED <<vbComponents, strays, helper, doc, recordingMacroName, tempModules,
                   pending>>

ModuleNames == {"UserFormHelper", "F1", "NoSuchModule"}

\* getVbaModuleCodeTool / a direct call of getVbaModuleCode
GetVbaModuleCode ==
  \E via \in Vias, moduleName \in ModuleNames :
    LET r == getVbaModuleCode(vbComponents, moduleName)
    IN /\ last' = Outcome([NoLast EXCEPT !.op = "getVbaModuleCode",
                                         !.name = moduleName,
                                         !.code = r.code],
                          via, r.ok,
                          "VBA Module '" \o moduleName \o "' code:",
                          "Failed to get VBA module code: ",
                          "Failed to get code from module '" \o moduleName
                             \o "'.")
       /\ UNCHANGED <<vbComponents, strays, helper, doc, recordingMacroName, tempModules,
                      pending>>

\* addActiveXControlTool behind its schema / a direct call of
\* addActiveXControl
AddActiveXControl ==
  \E via \in Vias, controlType \in ControlKinds, name \in ControlNamePool,
     anchorToRange \in BOOLEAN, namePut \in BOOLEAN :
    LET r == addActiveXControl(doc, controlType, name, anchorToRange, namePut)
        args == [NoLast EXCEPT !.op = "addActiveXControl", !.name = name,
                              !.kind = controlType, !.anchor = anchorToRange]
    IN /\ anchorToRange \/ namePut
       /\ Len(doc.shapes) + Len(doc.inlineShapes) < MaxShapes
       /\ IF via = "tool" /\ controlType \notin ActiveXControlType
          THEN /\ last' = [args EXCEPT !.via = "tool", !.status = "rejected",
                                       !.isError = TRUE,
                                       !.text = "Invalid arguments"]
               /\ doc' = doc
          ELSE /\ doc' = r.doc
               /\ last' = Outcome([args EXCEPT !.calls = r.calls], via, r.ok,
                                  "Successfully added ActiveX " \o controlType
                                     \o " control '" \o name \o "'",
                                  "Failed to add ActiveX control: ",
                                  "Failed to add ActiveX control '" \o name
                                     \o "'.")
       /\ UNCHANGED <<vbComponents, strays, helper, recordingMacroName, tempModules,
                      pending>>

\* listActiveXControlsTool / a direct call of listActiveXControls
ListActiveXControls ==
  \E via \in Vias :
    /\ last' = Outcome([NoLast EXCEPT !.op = "listActiveXControls",
                                      !.listed = listActiveXControls(doc)],
                       via, TRUE,
                       IF listActiveXControls(doc) # <<>>
                       THEN "ActiveX Controls:"
                       ELSE "No ActiveX controls found in the document",
                       "Failed to list ActiveX controls: ",
                       "Failed to list ActiveX controls.")
    /\ UNCHANGED <<vbComponents, strays, helper, doc, recordingMacroName, tempModules,
                   pending>>

\* the format names callers pass: those of the schema and one outside it
Formats == MacroFileFormat \cup {"pdf"}

\* saveAsMacroEnabledTool behind its schema / a direct call of
\* saveAsMacroEnabled; given = the caller names a format
SaveAsMacroEnabled ==
  \E via \in Vias, name \in Formats, given \in BOOLEAN,
     createBackup \in BOOLEAN, writable \in BOOLEAN :
    LET format == IF given THEN name ELSE "docm"
        r == saveAsMacroEnabled(format, createBackup, writable)
        args == [NoLast EXCEPT !.op = "saveAsMacroEnabled",
                              !.format = format]
    IN /\ given \/ name = "docm"
       /\ IF via = "tool" /\ format \notin MacroFileFormat
          THEN last' = [args EXCEPT !.via = "tool", !.status = "rejected",
                                   !.isError = TRUE,
                                   !.text = "Invalid arguments"]
          ELSE last' = Outcome([args EXCEPT !.fileFormat = r.fileFormat,
                                           !.calls = r.calls],
                               via, r.ok,
                               "Successfully saved document as macro-enabled format",
                               "Failed to save as macro-enabled: ",
                               "Failed to save document as macro-enabled format.")
       /\ UNCHANGED <<vbComponents, strays, helper, doc, recordingMacroName, tempModules,
                      pending>>

MacroNames == {"ShowUserFormModal", "NoSuchMacro"}

\* runVbaMacroTool / a direct call of runVbaMacro(macroName, [formName]):
\* Application.Run throws unless the macro exists, and returns what the
\* macro returns
RunVbaMacro ==
  \E via \in Vias, macroName \in MacroNames, formName \in FormNames,
     closure \in Closures, checked \in BOOLEAN :
   \E faulty \in 0..Len(vbComponents[formName].controls) :
    LET form == vbComponents[formName]
        exists == macroName = "ShowUserFormModal" /\ helper
        r == ShowUserFormModal(vbComponents, formName, closure, checked,
                               faulty)
        args == [NoLast EXCEPT !.op = "runVbaMacro", !.macro = macroName,
                              !.form = formName]
    IN /\ IF exists /\ form.type = vbext_ct_MSForm
          THEN CanClose(form, closure)
          ELSE closure = "close" /\ ~checked /\ faulty = 0
       /\ vbComponents' = IF exists THEN r.comps ELSE vbComponents
       /\ last' = Outcome(IF exists
                          THEN [args EXCEPT !.controls = form.controls,
                                            !.closure = IF r.shown
                                                        THEN closure ELSE "",
                                            !.checked = checked,
                                            !.faulty = faulty,
                                            !.result = r.result,
                                            !.calls =
                                              IF r.shown
                                              THEN <<HostCall("Show",
                                                              formName)>>
                                              ELSE <<>>]
                          ELSE args,
                          via, exists,
                          "Successfully executed macro '" \o macroName \o "'",
                          "Failed to run VBA macro: ",
                          "Failed to run macro '" \o macroName \o "'.")
       /\ UNCHANGED <<strays, helper, doc, recordingMacroName, tempModules,
                      pending>>

\* addUserFormSubmitLogicTool / a direct call of addUserFormSubmitLogic
AddUserFormSubmitLogic ==
  \E via \in Vias, formName \in FormNames :
    LET r == addUserFormSubmitLogic(vbComponents, formName)
    IN /\ Len(r.comps[formName].code) <= MaxProcedures
       /\ vbComponents' = r.comps
       /\ last' = Outcome([NoLast EXCEPT !.op = "addUserFormSubmitLogic",
                                         !.form = formName,
                                         !.calls = r.calls],
                          via, r.ok,
                          "Successfully added submit logic to UserForm '"
                             \o formName \o "'",
                          "Failed to add submit logic: ",
                          "Failed to add submit logic to UserForm '"
                             \o formName \o "'.")
       /\ UNCHANGED <<strays, helper, doc, recordingMacroName, tempModules,
                      pending>>

\* addFormEventHandlersTool / a direct call of addStandardFormEventHandlers
AddStandardFormEventHandlers ==
  \E via \in Vias, formName \in FormNames :
    LET r == addStandardFormEventHandlers(vbComponents, formName)
    IN /\ Len(r.comps[formName].code) <= MaxProcedures
       /\ vbComponents' = r.comps
       /\ last' = Outcome([NoLast EXCEPT
                             !.op = "addStandardFormEventHandlers",
                             !.form = formName, !.calls = r.calls],
                          via, r.ok,
                          "Successfully added standard event handlers to "
                             \o "UserForm '" \o formName \o "'",
                          "Failed to add form event handlers: ",
                          "Failed to add event handlers to form '"
                             \o formName \o "'.")
       /\ UNCHANGED <<strays, helper, doc, recordingMacroName, tempModules,
                      pending>>

RecordingNames == {"", "Macro1", "Macro2"}

\* recordMacroTool / a direct call of startRecordingMacro
StartRecordingMacro ==
  \E via \in Vias, macroName \in RecordingNames :
    /\ recordingMacroName' = startRecordingMacro(macroName)
    /\ last' = Outcome([NoLast EXCEPT !.op = "startRecordingMacro",
                                      !.macro = macroName],
                       via, TRUE,
                       "Started recording macro '" \o macroName \o "'",
                       "Failed to start recording macro: ",
                       "Failed to start recording macro '" \o macroName
                          \o "'.")
    /\ UNCHANGED <<vbComponents, strays, helper, doc, tempModules, pending>>

\* stopRecordingMacroTool / a direct call of stopRecordingMacro
StopRecordingMacro ==
  \E via \in Vias :
    LET r == stopRecordingMacro(recordingMacroName)
    IN /\ recordingMacroName' = r.stored
       /\ last' = Outcome([NoLast EXCEPT !.op = "stopRecordingMacro",
                                         !.result = r.result],
                          via, TRUE,
                          "Successfully stopped recording and saved macro '"
                             \o r.result \o "'",
                          "Failed to stop recording macro: ",
                          "Failed to stop recording macro.")
       /\ UNCHANGED <<vbComponents, strays, helper, doc, tempModules,
                      pending>>

\* the test data and the expected results callers hand to testVbaMacro;
\* Undefined is the argument left out
TestData == {Undefined, StrVal(""), StrVal("1"), NumVal(0), NumVal(1)}
ExpectedResults ==
  {Undefined, NumVal(1), StrVal("1"), StrVal(""), NullVal, BoolVal(TRUE)}

\* testVbaMacroTool / a direct call of testVbaMacro
TestVbaMacro ==
  \E via \in Vias, macroName \in TestMacros, testData \in TestData,
     expectedResult \in ExpectedResults :
    LET r == testVbaMacro(macroName, testData, expectedResult)
    IN /\ last' = Outcome([NoLast EXCEPT
                             !.op = "testVbaMacro", !.macro = macroName,
                             !.testData = testData,
                             !.expectedResult = expectedResult,
                             !.test = [success |-> r.success,
                                       result |-> r.result,
                                       error |-> r.error,
                                       parameters |-> r.parameters],
                             !.calls = r.calls],
                          via, TRUE,
                          "Macro test '" \o macroName \o "': Status: "
                             \o (IF r.success THEN "PASSED" ELSE "FAILED"),
                          "Failed to test VBA macro: ",
                          "Failed to test macro '" \o macroName \o "'.")
       /\ UNCHANGED <<vbComponents, strays, helper, doc, recordingMacroName,
                      tempModules, pending>>

\* executeVbaImmediateTool / a direct call of executeVbaImmediate
ExecuteVbaImmediate ==
  \E via \in Vias, immediateCode \in VbaSnippets, fault \in HostFaults :
    LET r == executeVbaImmediate(tempModules, immediateCode, fault)
    IN /\ r.modules <= MaxTempModules
       /\ tempModules' = r.modules
       /\ last' = Outcome([NoLast EXCEPT !.op = "executeVbaImmediate",
                                         !.code = <<immediateCode>>,
                                         !.result = r.result,
                                         !.calls = r.calls],
                          via, r.ok,
                          "Immediate window execution: (No output)",
                          "Failed to execute in Immediate window: ",
                          "Failed to execute in VBA Immediate window.")
       /\ UNCHANGED <<vbComponents, strays, helper, doc, recordingMacroName,
                      pending>>

\* the number of awaited service calls createFormWithControls makes after
\* its first: one per control, then btnOK, btnCancel and the handlers
lastStep(controls, addStandardButtons) ==
  Len(controls) + IF addStandardButtons THEN 3 ELSE 0

\* the awaited call of createFormWithControls at position pc (0 is
\* createUserForm), run on the project as it is when the call resumes
createFormWithControlsStep(comps, nStrays, p) ==
  LET n == Len(p.controls)
      buttonTop == p.height - 60
      buttonRight == p.width - 20
      noStray(r) == [ok |-> r.ok, comps |-> r.comps, strays |-> nStrays,
                     calls |-> r.calls]
  IN CASE p.pc = 0 ->
            createUserForm(comps, nStrays, p.form, p.width, p.height)
       [] p.pc \in 1..n ->
            LET ctrl == p.controls[p.pc]
            IN noStray(addControlToUserForm(comps, p.form, ctrl.type,
                                            ctrl.name, ctrl.caption, ctrl.left,
                                            ctrl.top, ctrl.width, ctrl.height))
       [] p.pc = n + 1 ->
            noStray(addControlToUserForm(comps, p.form, "commandButton",
                                         "btnOK", "OK", buttonRight - 160,
                                         buttonTop, 70, 30))
       [] p.pc = n + 2 ->
            noStray(addControlToUserForm(comps, p.form, "commandButton",
                                         "btnCancel", "Cancel",
                                         buttonRight - 80, buttonTop, 70, 30))
       [] OTHER ->
            noStray(addStandardFormEventHandlers(comps, p.form))

\* the arguments of the calls that run while other calls are in flight
ConcSizes == {<<400, 250>>}
ConcLists == {<<>>, <<txtName>>, <<txtName, chkAgree>>}

\* a call of createFormWithControls starts and is suspended at its first
\* await; nothing serialises the calls, one call in progress is modelled
BeginCreateFormWithControls ==
  \E via \in Vias, formName \in NewFormNames, size \in ConcSizes,
     controls \in ConcLists, addStandardButtons \in BOOLEAN :
    /\ ~pending.active
    /\ pending' = [NoPending EXCEPT !.active = TRUE, !.via = via,
                                    !.form = formName, !.width = size[1],
                                    !.height = size[2],
                                    !.controls = controls,
                                    !.std = addStandardButtons]
    /\ UNCHANGED <<vbComponents, strays, helper, doc, recordingMacroName,
                   tempModules, last>>

\* the suspended call resumes and runs up to its next await: one awaited
\* service call; it ends when that call throws or was the last one
ResumeCreateFormWithControls ==
  /\ pending.active
  /\ LET r == createFormWithControlsStep(vbComponents, strays, pending)
         calls == pending.calls \o r.calls
         ended == ~r.ok \/ pending.pc = lastStep(pending.controls, pending.std)
     IN /\ r.strays <= MaxStrays
        /\ vbComponents' = r.comps
        /\ strays' = r.strays
        /\ pending' = IF ended THEN NoPending
                      ELSE [pending EXCEPT !.pc = @ + 1, !.calls = calls]
        /\ last' = IF ended
                   THEN Outcome([NoLast EXCEPT
                                   !.op = "createFormWithControls",
                                   !.form = pending.form,
                                   !.width = pending.width,
                                   !.height = pending.height,
                                   !.controls = pending.controls,
                                   !.std = pending.std, !.calls = calls],
                                pending.via, r.ok,
                                "Successfully created UserForm '"
                                   \o pending.form \o "'",
                                "Failed to create form: ",
                                "Failed to create form '" \o pending.form
                                   \o "'.")
                   ELSE last
  /\ UNCHANGED <<helper, doc, recordingMacroName, tempModules>>

Init ==
  /\ vbComponents = [n \in ComponentNames |->
                       IF n = "ThisDocument" THEN ThisDocument
                                             ELSE NoComponent]
  /\ strays = 0
  /\ helper = FALSE
  /\ doc = NoControls
  /\ recordingMacroName = undefined
  /\ tempModules = 0
  /\ pending = NoPending
  /\ last = NoLast

\* the document the service finds open may hold a UserFormHelper module
\* already: an empty one, one with other code, one with the helper code
InitDoc ==
  /\ \E code \in {<<>>, <<"Main">>, vbaCode}, present \in BOOLEAN :
       /\ present \/ code = <<>>
       /\ vbComponents =
            [n \in ComponentNames |->
               CASE n = "ThisDocument" -> ThisDocument
                 [] n = "UserFormHelper" /\ present ->
                      [NoComponent EXCEPT !.type = vbext_ct_StdModule,
                                          !.code = code]
                 [] OTHER -> NoComponent]
       /\ helper = Includes(code, "ShowUserFormModal")
  /\ strays = 0
  /\ doc = NoControls
  /\ recordingMacroName = undefined
  /\ tempModules = 0
  /\ pending = NoPending
  /\ last = NoLast

\* ---- creating and deleting forms
CreateFormWithControls == CallCreateFormWithControls(Sizes, ControlLists)

createFormWithControlsTool ==
  CallCreateFormWithControlsTool(Sizes, ControlLists)

Next ==
  \/ CreateUserForm
  \/ CreateFormWithControls
  \/ createFormWithControlsTool
  \/ DeleteUserForm
  \/ ListUserForms

Spec == Init /\ [][Next]_vars

\* ---- showing forms and collecting what the user entered
ShowSizes == {<<400, 250>>}

CreatePlainForm == CallCreateFormWithControls(ShowSizes, PlainLists)

CreatePlainFormTool == CallCreateFormWithControlsTool(ShowSizes, PlainLists)

NextShow ==
  \/ CreatePlainForm
  \/ CreatePlainFormTool
  \/ DeleteUserForm
  \/ CreateShowUserFormModalFunction
  \/ ShowUserForm
  \/ RunVbaMacro

SpecShow == Init /\ [][NextShow]_vars

\* ---- collecting from forms of every kind of control
CreateKindForm == CallCreateFormWithControls(ShowSizes, KindLists)

NextCollect ==
  \/ CreateKindForm
  \/ DeleteUserForm
  \/ CreateShowUserFormModalFunction
  \/ ShowUserForm
  \/ RunVbaMacro

SpecCollect == Init /\ [][NextCollect]_vars

\* ---- the modules of the project
NextModules ==
  \/ CreatePlainForm
  \/ DeleteUserForm
  \/ CreateShowUserFormModalFunction
  \/ ListVbaModules
  \/ GetVbaModuleCode

SpecModules == InitDoc /\ [][NextModules]_vars

\* ---- the ActiveX controls and the file of the document
NextDoc ==
  \/ AddActiveXControl
  \/ ListActiveXControls
  \/ SaveAsMacroEnabled

SpecDoc == Init /\ [][NextDoc]_vars

\* ---- the event handlers in the code module of a form
NextHandlers ==
  \/ CreatePlainForm
  \/ CreateUserForm
  \/ DeleteUserForm
  \/ AddStandardFormEventHandlers
  \/ AddUserFormSubmitLogic

SpecHandlers == Init /\ [][NextHandlers]_vars

\* ---- recording, testing and running macros
NextExec ==
  \/ StartRecordingMacro
  \/ StopRecordingMacro
  \/ TestVbaMacro
  \/ ExecuteVbaImmediate

SpecExec == Init /\ [][NextExec]_vars

\* ---- tool calls in flight together
NextConc ==
  \/ BeginCreateFormWithControls
  \/ ResumeCreateFormWithControls
  \/ ShowUserForm

SpecConc == Init /\ [][NextConc]_vars

\* ------------------------------------------------------------- properties
UniqueNames(controls) ==
  \A i, j \in DOMAIN controls : i # j => controls[i].name # controls[j].name

SupportedKinds(controls) ==
  \A i \in DOMAIN controls : controlClassMap(controls[i].type) # ""

\* no descriptor takes the name of a standard button that is to be added
NoReservedName(controls, addStandardButtons) ==
  addStandardButtons =>
    \A i \in DOMAIN controls : controls[i].name \notin {"btnOK", "btnCancel"}

\* a caption is given only to a kind that has one
CaptionsFit(controls) ==
  \A i \in DOMAIN controls :
     controls[i].caption # "" => HasCaption(controls[i].type)

\* the step is a call that reached the service method createFormWithControls
CalledCreateFormWithControls ==
  last'.op = "createFormWithControls" /\ last'.status # "rejected"

StandardButtonCount(addStandardButtons) == IF addStandardButtons THEN 2 ELSE 0

CreatesForm == last'.op \in {"createUserForm", "createFormWithControls"}

\* C2 as stated: on every entry point that creates a form, a requested
\* width or height below the floor is raised to the floor and never
\* rejected: the created form is max(width, 300) by max(height, 200).
C2_Claim ==
  [][ ( /\ CreatesForm
        /\ vbComponents[last'.form].type = 0
        /\ UniqueNames(last'.controls)
        /\ \A i \in DOMAIN last'.controls :
              last'.controls[i].type \in SchemaKinds
        /\ NoReservedName(last'.controls, last'.std)
        /\ CaptionsFit(last'.controls) )
      => ( /\ last'.status = "ok"
           /\ vbComponents'[last'.form].type = vbext_ct_MSForm
           /\ vbComponents'[last'.form].width = Max(last'.width, minWidth)
           /\ vbComponents'[last'.form].height = Max(last'.height, minHeight) )
    ]_vars

\* C3 as stated: two descriptors of the same name make createFormWith-
\* Controls fail with no call on the host surface: no form container is
\* created and no control is added.
C3_Claim ==
  [][ ( /\ CalledCreateFormWithControls
        /\ ~UniqueNames(last'.controls) )
      => ( /\ last'.status = "error"
           /\ last'.calls = <<>>
           /\ vbComponents' = vbComponents )
    ]_vars

\* C4: creating a form under the name of a form that exists fails, and the
\* existing form keeps its size, controls and code.
C4_DuplicateFormFails ==
  [][ ( /\ CreatesForm
        /\ vbComponents[last'.form].type = vbext_ct_MSForm )
      => ( /\ last'.status # "ok"
           /\ vbComponents'[last'.form] = vbComponents[last'.form] )
    ]_vars

\* a creation under the name of an existing form with controls was refused
\* when the name was assigned
C4_Witness ==
  /\ last.op \in {"createUserForm", "createFormWithControls"}
  /\ last.form = "F1"
  /\ last.status = "error"
  /\ last.calls = <<HostCall("VBComponents.Add", "F1")>>
  /\ vbComponents["F1"].type = vbext_ct_MSForm
  /\ Len(vbComponents["F1"].controls) >= 3
  /\ strays = 1

\* C8 as stated: a descriptor of a kind outside the supported kinds makes
\* createFormWithControls fail before anything is built: no form container
\* and no control is created.
C8_Claim ==
  [][ ( /\ last'.op = "createFormWithControls"
        /\ ~SupportedKinds(last'.controls) )
      => ( /\ last'.status # "ok"
           /\ last'.calls = <<>>
           /\ vbComponents' = vbComponents )
    ]_vars

\* the step / state is a show of a form through showUserForm
ShownByService == last.op = "showUserForm" /\ last.status = "ok"

\* the state follows a run of ShowUserFormModal that displayed the form
ShownByHelper ==
  /\ last.op = "runVbaMacro"
  /\ last.macro = "ShowUserFormModal"
  /\ last.status = "ok"
  /\ last.closure # ""

IsLabelOrButton(control) == control.type \in {"label", "commandButton"}

\* C5 as stated: the mapping a show/collect cycle returns has no key for a
\* label or a button control, btnOK and btnCancel included.
C5_Claim ==
  ShownByService =>
    \A i \in DOMAIN last.controls :
       IsLabelOrButton(last.controls[i]) =>
         last.controls[i].name \notin DOMAIN last.formData

\* the result reports the cycle as cancelled
ReportsCancelled ==
  \/ /\ last.op = "showUserForm"
     /\ "cancelled" \in DOMAIN last.formData
     /\ last.formData["cancelled"] = BoolVal(TRUE)
  \/ /\ last.op = "runVbaMacro"
     /\ last.result = ""

\* C6 as stated: a form closed through the window-close affordance is
\* reported as cancelled, never as a submission.
C6_Claim ==
  ( /\ ShownByService \/ ShownByHelper
    /\ last.closure = "close"
    /\ Includes(vbComponents[last.form].code, "UserForm_QueryClose") )
    => ReportsCancelled

\* the kinds whose controls carry what the user entered
IsDataBearing(control) ==
  control.type \in {"textBox", "comboBox", "checkBox", "optionButton",
                    "listBox", "toggleButton"}

\* C7 as stated: when reading one control raises, the collection does not
\* raise and the mapping has an entry for every other data-bearing control,
\* those after the failing one included.
C7_Claim ==
  (last.op = "showUserForm" /\ last.faulty > 0
     /\ vbComponents[last.form].type = vbext_ct_MSForm)
    => ( /\ last.status = "ok"
         /\ \A i \in DOMAIN last.controls :
               (i # last.faulty /\ IsDataBearing(last.controls[i]))
                 => last.controls[i].name \in DOMAIN last.formData )

\* C9 as stated: ShowUserFormModal returns "" when the user cancelled
\* (cancel button or window close) and a non-empty string when the form was
\* confirmed.
C9_Claim ==
  ShownByHelper =>
    ( /\ last.closure \in {"cancel", "close"} => last.result = ""
      /\ last.closure = "ok" => last.result # "" )

\* descriptor k of the list is one addControlToUserForm refuses once the
\* descriptors before it are on the form
Refused(controls, k) ==
  \/ controlClassMap(controls[k].type) = ""
  \/ \E j \in 1..(k - 1) : controls[j].name = controls[k].name
  \/ controls[k].caption # "" /\ ~HasCaption(controls[k].type)

\* the index of the first such descriptor, Len + 1 when there is none
FirstRefused(controls) ==
  CHOOSE k \in 1..(Len(controls) + 1) :
    /\ k <= Len(controls) => Refused(controls, k)
    /\ \A j \in 1..(k - 1) : ~Refused(controls, j)

\* C11: when createFormWithControls fails at input control k, the form and
\* the k - 1 controls before it stay in the project as they were made,
\* nothing after control k is created (no later input control, no standard
\* button, no handler), and a control that could not be instantiated leaves
\* nothing of itself.
C11_PartialForm ==
  [][ ( /\ CalledCreateFormWithControls
        /\ vbComponents[last'.form].type = 0
        /\ FirstRefused(last'.controls) <= Len(last'.controls) )
      => LET k == FirstRefused(last'.controls)
             form == vbComponents'[last'.form]
         IN /\ last'.status = "error"
            /\ form.type = vbext_ct_MSForm
            /\ Len(form.controls) \in {k - 1, k}
            /\ SubSeq(form.controls, 1, k - 1) = SubSeq(last'.controls, 1, k - 1)
            /\ controlClassMap(last'.controls[k].type) = ""
                 => Len(form.controls) = k - 1
            /\ form.code = <<>>
            /\ Len(last'.calls) = k + 1
    ]_vars

\* a list of three good controls and a fourth of an unknown kind, standard
\* buttons requested: the form is left with the three controls
C11_Witness ==
  /\ last.op = "createFormWithControls"
  /\ last.status = "error"
  /\ last.std
  /\ Len(last.controls) = 4
  /\ controlClassMap(last.controls[4].type) = ""
  /\ vbComponents[last.form].type = vbext_ct_MSForm
  /\ Len(vbComponents[last.form].controls) = 3
  /\ vbComponents[last.form].code = <<>>

\* the forms of the project that carry a name a caller gave
LiveForms == {n \in FormNames : vbComponents[n].type = vbext_ct_MSForm}

\* C12: a successful creation adds exactly the new name to the forms of the
\* project, a successful deletion removes exactly the deleted name, and as
\* long as no creation has failed listUserForms returns exactly the names
\* created and not deleted since, leaving the project as it is.
C12_ListedForms ==
  [][ /\ (CreatesForm /\ last'.status = "ok")
           => ( /\ last'.form \notin LiveForms
                /\ LiveForms' = LiveForms \cup {last'.form} )
      /\ (last'.op = "deleteUserForm" /\ last'.status = "ok")
           => ( /\ last'.form \in LiveForms
                /\ LiveForms' = LiveForms \ {last'.form} )
      /\ last'.op = "listUserForms"
           => ( /\ last'.status = "ok"
                /\ strays = 0 => last'.names = LiveForms
                /\ vbComponents' = vbComponents )
    ]_vars

\* the form just created is listed
C12_Witness ==
  /\ last.op = "listUserForms"
  /\ last.names = {"F1"}
  /\ vbComponents["F1"].type = vbext_ct_MSForm
  /\ strays = 0

\* the host calls of a complete createFormWithControls, in the claimed order
ExpectedCalls(formName, controls, addStandardButtons) ==
  <<HostCall("VBComponents.Add", formName)>>
    \o [i \in 1..Len(controls) |-> HostCall("Controls.Add", controls[i].name)]
    \o IF addStandardButtons
       THEN <<HostCall("Controls.Add", "btnOK"),
              HostCall("Controls.Add", "btnCancel"),
              HostCall("CodeModule.AddFromString", formName)>>
       ELSE <<>>

IsPrefix(s, t) == Len(s) <= Len(t) /\ s = SubSeq(t, 1, Len(s))

\* C16: createFormWithControls issues its host calls in one order: the form
\* container first, then the controls in the order of the input list, then
\* btnOK, then btnCancel, and the handlers last; a call that fails has issued
\* a prefix of that sequence and a call that succeeds all of it.
C16_CallOrder ==
  [][ CalledCreateFormWithControls
      => LET expected == ExpectedCalls(last'.form, last'.controls, last'.std)
         IN /\ last'.calls # <<>>
            /\ IsPrefix(last'.calls, expected)
            /\ last'.status = "ok" => last'.calls = expected
    ]_vars

\* a form of three controls with standard buttons was built in seven calls
C16_Witness ==
  /\ last.op = "createFormWithControls"
  /\ last.status = "ok"
  /\ last.std
  /\ Len(last.controls) = 3
  /\ Len(last.calls) = 7
  /\ last.calls[1] = HostCall("VBComponents.Add", last.form)
  /\ last.calls[5] = HostCall("Controls.Add", "btnOK")
  /\ last.calls[7] = HostCall("CodeModule.AddFromString", last.form)

\* the form carries the closure handlers of buttonCode
StandardHandlers(form) ==
  /\ form.type = vbext_ct_MSForm
  /\ Includes(form.code, "btnOK_Click")
  /\ Includes(form.code, "btnCancel_Click")
  /\ Includes(form.code, "UserForm_QueryClose")

RuledKinds == {"textBox", "comboBox", "checkBox", "optionButton", "listBox"}
SkippedKinds == {"label", "commandButton"}

IsCustom(control) == control.type \notin RuledKinds \cup SkippedKinds

Quoted(s) == "\"" \o s \o "\""

\* the first present of value, text, caption of a control, as text
FirstPresent(control, checked) ==
  CASE control.type = "toggleButton" -> IIf(checked, "True", "False")
    [] control.type \in {"spinButton", "scrollBar"} -> "0"
    [] OTHER -> control.caption

\* the entry of a control in the text ShowUserFormModal returns, as the
\* claims describe the collection ("" = no entry)
claimedEntry(control, typed, checked) ==
  CASE control.type \in {"textBox", "comboBox"} ->
         Quoted(control.name) \o ":" \o Quoted(typed)
    [] control.type \in {"checkBox", "optionButton"} ->
         Quoted(control.name) \o ":" \o IIf(checked, "true", "false")
    [] control.type = "listBox" -> Quoted(control.name) \o ":" \o Quoted("")
    [] control.type \in SkippedKinds -> ""
    [] OTHER ->
         IF HasValue(control.type) \/ HasText(control.type)
              \/ HasCaption(control.type)
         THEN Quoted(control.name) \o ":"
                \o Quoted(FirstPresent(control, checked))
         ELSE ""

RECURSIVE claimedJson(_, _, _, _, _)
claimedJson(result, controls, i, typed, checked) ==
  IF i > Len(controls)
  THEN result \o "}"
  ELSE LET data == claimedEntry(controls[i], typed, checked)
           sep == IF Len(result) > 1 /\ data # "" THEN "," ELSE ""
       IN claimedJson(result \o sep \o data, controls, i + 1, typed, checked)

\* C19 as stated: a collection in which no read raises reports a text input
\* and a dropdown with their current text, a checkbox and a radio option
\* with their boolean state, and a list control in which nothing is selected
\* with the empty string; so in the mapping showUserForm returns, and so in
\* the text ShowUserFormModal returns.
C19_Claim ==
  /\ (ShownByService /\ last.faulty = 0) =>
       \A i \in DOMAIN last.controls :
          LET control == last.controls[i]
          IN control.type \in RuledKinds =>
               /\ control.name \in DOMAIN last.formData
               /\ last.formData[control.name] =
                    CASE control.type \in {"textBox", "comboBox"} ->
                           StrVal(last.typed)
                      [] control.type \in {"checkBox", "optionButton"} ->
                           BoolVal(last.checked)
                      [] OTHER -> StrVal("")
  /\ ( /\ ShownByHelper
       /\ last.faulty = 0
       /\ \A i \in DOMAIN last.controls : ~IsCustom(last.controls[i]) )
       => last.result
            = claimedJson("{", last.controls, 1, last.typed, last.checked)

\* C20 as stated: a control of a kind without a rule of its own is reported
\* with the first present of its value, text and caption, a control with
\* none of the three has no entry, and the collection does not fail; so in
\* the mapping showUserForm returns, and so in the text ShowUserFormModal
\* returns.
C20_Claim ==
  /\ (ShownByService /\ last.faulty = 0) =>
       \A i \in DOMAIN last.controls :
          LET control == last.controls[i]
          IN IsCustom(control) =>
               IF HasValue(control.type)
               THEN /\ control.name \in DOMAIN last.formData
                    /\ last.formData[control.name]
                         = ValueOf(control, last.typed, last.checked)
               ELSE IF HasCaption(control.type)
               THEN /\ control.name \in DOMAIN last.formData
                    /\ last.formData[control.name] = CaptionOf(control)
               ELSE control.name \notin DOMAIN last.formData
  /\ ( /\ ShownByHelper
       /\ last.faulty = 0
       /\ \E i \in DOMAIN last.controls : IsCustom(last.controls[i]) )
       => last.result
            = claimedJson("{", last.controls, 1, last.typed, last.checked)

\* C13 as stated: for each of the six format names the schema accepts, a
\* saveAsMacroEnabled that succeeds has saved the document in the Word
\* format of that name (doc: Word 97-2003 Document, dot: Word 97-2003
\* Template), never in another.
C13_Claim ==
  ( /\ last.op = "saveAsMacroEnabled"
    /\ last.status = "ok"
    /\ last.format \in MacroFileFormat )
    => last.fileFormat = formatMap(last.format)

C15_HelperInstalled ==
  [][ /\ last'.op = "createShowUserFormModalFunction"
         => ( /\ last'.status = "ok"
              /\ helper'
              /\ \E m \in listVbaModules(vbComponents', strays') :
                    m.name = "UserFormHelper"
              /\ getVbaModuleCode(vbComponents', "UserFormHelper").ok
              /\ Includes(getVbaModuleCode(vbComponents',
                                           "UserFormHelper").code,
                          "ShowUserFormModal")
              /\ IsPrefix(vbComponents["UserFormHelper"].code,
                          vbComponents'["UserFormHelper"].code) )
      /\ (last'.op = "listVbaModules" /\ helper)
         => \E m \in last'.modules : m.name = "UserFormHelper"
      /\ (last'.op = "getVbaModuleCode" /\ last'.name = "UserFormHelper"
            /\ helper)
         => ( /\ last'.status = "ok"
              /\ Includes(last'.code, "ShowUserFormModal") )
      /\ helper => helper'
    ]_vars

\* the function was added to a UserFormHelper module that held other code,
\* and getVbaModuleCode returns both
C15_Witness ==
  /\ last.op = "getVbaModuleCode"
  /\ last.name = "UserFormHelper"
  /\ last.status = "ok"
  /\ last.code = <<"Main">> \o vbaCode

\* the standard button of the given name on the form
ButtonOf(form, name) ==
  CHOOSE c \in {form.controls[i] : i \in DOMAIN form.controls} : c.name = name

\* the control lies inside the form, at non-negative left and top
InsideForm(form, c) ==
  /\ c.left >= 0
  /\ c.top >= 0
  /\ c.left + c.width <= form.width
  /\ c.top + c.height <= form.height

\* C21: when createFormWithControls adds the standard buttons, btnOK and
\* btnCancel are placed from the width and height the form really has (the
\* clamped ones): their top is the form's height minus 60 and both lie
\* inside the form with non-negative left and top, for every requested size.
C21_Claim ==
  [][ (CalledCreateFormWithControls /\ last'.status = "ok" /\ last'.std)
      => LET form == vbComponents'[last'.form]
         IN \A name \in {"btnOK", "btnCancel"} :
              /\ HasButton(form, name)
              /\ ButtonOf(form, name).top = form.height - 60
              /\ InsideForm(form, ButtonOf(form, name))
    ]_vars

\* how often the code module defines the procedure
Defines(code, procName) ==
  Cardinality({i \in DOMAIN code : code[i] = procName})

\* C26: after any sequence of addStandardFormEventHandlers,
\* addUserFormSubmitLogic and createFormWithControls calls on a form, its
\* code module defines btnOK_Click at most once and btnCancel_Click at most
\* once.
C26_Claim ==
  \A formName \in FormNames :
     vbComponents[formName].type = vbext_ct_MSForm
     => /\ Defines(vbComponents[formName].code, "btnOK_Click") <= 1
        /\ Defines(vbComponents[formName].code, "btnCancel_Click") <= 1

\* C23: stopRecordingMacro returns the name given to the most recent
\* startRecordingMacro since the last stop, and "RecordedMacro" when no
\* recording was started; a stop clears the stored name and a start replaces
\* the name an earlier start stored.
C23_Claim ==
  [][ /\ last'.op = "startRecordingMacro"
           => recordingMacroName' = <<last'.macro>>
      /\ last'.op = "stopRecordingMacro"
           => /\ last'.result = IF recordingMacroName = undefined
                                THEN "RecordedMacro"
                                ELSE recordingMacroName[1]
              /\ recordingMacroName' = undefined
    ]_vars

\* C24: testVbaMacro does not throw when the tested macro fails: it returns
\* success = false with the error message; success is true exactly when the
\* macro ran without error and either no expected result was given or the
\* result of the macro equals the expected result.
C24_TestResult ==
  last.op = "testVbaMacro"
  => LET ran == Run(last.macro, last.test.parameters)
     IN /\ last.status = "ok"
        /\ ~last.isError
        /\ ~ran.ok => /\ ~last.test.success
                      /\ last.test.error
                           = "Failed to run macro '" \o last.macro \o "'."
        /\ last.test.success
             <=> /\ ran.ok
                 /\ \/ last.expectedResult = Undefined
                    \/ ran.value = last.expectedResult

\* a test of a macro that does not exist, with an expected result, was
\* reported as failed through the tool
C24_Witness ==
  /\ last.op = "testVbaMacro"
  /\ last.via = "tool"
  /\ last.macro = "NoSuchMacro"
  /\ last.expectedResult = NumVal(1)
  /\ ~last.test.success
  /\ last.test.error # ""
  /\ last.text = "Macro test 'NoSuchMacro': Status: FAILED"

\* C25: executeVbaImmediate leaves the set of VBA components of the project
\* as it was: the temporary module is removed before the call ends, when the
\* code ran and when adding or running the code failed.
C25_Claim ==
  [][ last'.op = "executeVbaImmediate" => tempModules' = tempModules ]_vars

FailPrefixes ==
  { "Failed to create UserForm: ", "Failed to create form: ",
    "Failed to delete UserForm: ", "Failed to run VBA macro: " }
    \cup { "Failed to show UserForm '" \o n \o "': " : n \in FormNames }

\* C10: a tool handler that ran returns a result and does not throw: no
\* isError when the service call succeeded, isError and the error message
\* when it threw.
C10_ToolResult ==
  (last.via = "tool" /\ last.status # "rejected") =>
    ( /\ last.status = "ok" => (~last.isError /\ last.text # "")
      /\ last.status = "error" =>
           ( /\ last.isError
             /\ last.message # ""
             /\ \E prefix \in FailPrefixes :
                   last.text = prefix \o last.message ) )

\* a tool call whose service call threw came back as an error result
C10_Witness ==
  /\ last.via = "tool"
  /\ last.op = "showUserForm"
  /\ last.status = "error"
  /\ last.isError

====
